---- MODULE Spec2Model ----
(***************************************************************************)
(* Model of the email open-tracking service of src/app.py: the tracking    *)
(* endpoint track_email, its derivation of base_campaign_id, and the       *)
(* remote Mails table it reads and writes.                                 *)
(*                                                                         *)
(* Strings the code manipulates character by character (campaign ids) are  *)
(* sequences of one-character strings.  Timestamps are readings of         *)
(* datetime.now() (naturals >= 1); EmptyTs stands for the empty string ''. *)
(* A column that is NULL / absent from a row is a field outside the row's  *)
(* DOMAIN.                                                                 *)
(***************************************************************************)
EXTENDS Integers, Sequences, FiniteSets, TLC

VARIABLES
    env,          \* os.environ: SUPABASE_URL and SUPABASE_ANON_KEY
    serial,       \* TRUE when the server handles one request at a time
    table,        \* the rows of the remote Mails table, in insertion order
    received,     \* number of tracking requests received so far
    pc,           \* per request slot: position inside track_email
    email,        \* per request slot: URL parameter <email>
    campaign_id,  \* per request slot: URL parameter <path:campaign_id>
    existing,     \* per request slot: existing.data (the element the code reads)
    current_time, \* per request slot: current_time
    data,         \* per request slot: update_data / insert_data
    outcome,      \* per request slot: how the try block ended
    writes,       \* per request slot: insert/update calls issued to the store
    response,     \* per request slot: the Response returned
    mainOpens,    \* per (email, base id): main-email writes the store accepted
    dIn,          \* input of the base_campaign_id derivation under study
    dOut          \* <<derive(dIn)>> once computed, <<>> before

vars == <<env, serial, table, received, pc, email, campaign_id,
          existing, current_time, data, outcome, writes, response, mainOpens, dIn, dOut>>

reqVars == <<pc, email, campaign_id, existing, current_time, data, outcome, writes, response>>

(***************************************************************************)
(* Bounds of the model.                                                    *)
(***************************************************************************)
NumReq == 2        \* request slots (requests that can overlap)
MaxRequests == 3   \* tracking requests received in one behaviour
MaxTime == 2       \* readings of datetime.now(): 1..MaxTime
MaxLen == 4        \* longest campaign id given to the derivation alone

Req == 1..NumReq

\* values of datetime.now().isoformat()
Times == 1..MaxTime

(***************************************************************************)
(* Python string operations used by track_email.                           *)
(***************************************************************************)
F1 == <<"F", "1">>
F2 == <<"F", "2">>
F3 == <<"F", "3">>
F4 == <<"F", "4">>

\* pat in s  (pat has two characters)
Contains(s, pat) ==
    \E i \in 1..(Len(s) - 1) : s[i] = pat[1] /\ s[i + 1] = pat[2]

\* s.replace(pat, ''): left-to-right, non-overlapping, single pass
RECURSIVE Replace(_, _)
Replace(s, pat) ==
    IF Len(s) < 2 THEN s
    ELSE IF s[1] = pat[1] /\ s[2] = pat[2]
         THEN Replace(SubSeq(s, 3, Len(s)), pat)
         ELSE <<s[1]>> \o Replace(Tail(s), pat)

\* s.lstrip(ch)
RECURSIVE LStrip(_, _)
LStrip(s, ch) ==
    IF s # <<>> /\ s[1] = ch THEN LStrip(Tail(s), ch) ELSE s

\* s.rstrip(ch)
RECURSIVE RStrip(_, _)
RStrip(s, ch) ==
    IF s # <<>> /\ s[Len(s)] = ch THEN RStrip(SubSeq(s, 1, Len(s) - 1), ch) ELSE s

\* s.strip(): surrounding whitespace
Strip(s) == RStrip(LStrip(s, " "), " ")

\* followup_type: 'F1', 'F2', 'F3', 'F4' in priority order, "main" for None
FollowupType(c) ==
    IF Contains(c, F1) THEN "F1"
    ELSE IF Contains(c, F2) THEN "F2"
    ELSE IF Contains(c, F3) THEN "F3"
    ELSE IF Contains(c, F4) THEN "F4"
    ELSE "main"

IsFollowup(c) == FollowupType(c) # "main"

\* base_campaign_id
BaseCampaignId(c) ==
    RStrip(Strip(Replace(Replace(Replace(Replace(c, F1), F2), F3), F4)), "/")

\* TrackField with a fault: the column named in lower case
TrackField_Lowercase(ft) ==
    CASE ft = "F1" -> "f1_track"
      [] ft = "F2" -> "f2_track"
      [] ft = "F3" -> "f3_track"
      [] ft = "F4" -> "f4_track"

\* f'{followup_type}_track'
TrackField(ft) ==
    CASE ft = "F1" -> "F1_track"
      [] ft = "F2" -> "F2_track"
      [] ft = "F3" -> "F3_track"
      [] ft = "F4" -> "F4_track"

\* f'{followup_type.lower()}_opened_at'
TimestampField(ft) ==
    CASE ft = "F1" -> "f1_opened_at"
      [] ft = "F2" -> "f2_opened_at"
      [] ft = "F3" -> "f3_opened_at"
      [] ft = "F4" -> "f4_opened_at"

(***************************************************************************)
(* Inputs of the tracking endpoint.                                        *)
(***************************************************************************)
Emails == {"alice@x.com"}

CampaignIds ==
    { <<"c">>, <<"c", "F", "1">>, <<"c", "/">>, <<"d", "F", "2">> }

BaseIds == { BaseCampaignId(c) : c \in CampaignIds }

Keys == Emails \X BaseIds

\* environment values: "" unset, "ok" accepted by create_client, "bad" rejected
EnvUrls == {"", "ok", "bad"}
EnvKeys == {"", "ok"}

(***************************************************************************)
(* The response and the data the handler builds.                           *)
(***************************************************************************)
pixel_data ==
    << 71, 73, 70, 56, 57, 97, 1, 0, 1, 0, 128, 0, 0, 255, 255, 255, 0, 0, 0,
       44, 0, 0, 0, 0, 1, 0, 1, 0, 0, 2, 2, 76, 1, 0, 59 >>

NoResponse == [body |-> <<>>, mimetype |-> ""]

\* ResponseOf with a fault: the except clause answers with an error page
ResponseOf_ErrorPage(oc) ==
    IF oc = "ok"
    THEN [body |-> pixel_data, mimetype |-> "image/gif"]
    ELSE [body |-> <<>>, mimetype |-> "text/html"]

\* the return statement after the try/except: the same for every outcome
ResponseOf(oc) == [body |-> pixel_data, mimetype |-> "image/gif"]

\* GetSupabaseClient with a fault: the check of the two variables is missing
GetSupabaseClient_Unchecked(environ) ==
    IF environ.url = "bad" THEN "ClientError" ELSE "client"

\* get_supabase_client: ValueError when a variable is unset or empty,
\* the exception of create_client re-raised, the client otherwise
GetSupabaseClient(environ) ==
    IF environ.url = "" \/ environ.key = "" THEN "ValueError"
    ELSE IF environ.url = "bad" THEN "ClientError"
    ELSE "client"

\* the empty string '' as a stored first_opened_at
EmptyTs == 0

\* current_time before it is assigned
NoTime == EmptyTs

\* matched_record.get('open_count') or 0
CurrentCount(rec) ==
    IF "open_count" \in DOMAIN rec THEN rec.open_count ELSE 0

\* first_opened is None or first_opened == ''
FirstOpenedMissing(rec) ==
    \/ "first_opened_at" \notin DOMAIN rec
    \/ rec.first_opened_at = EmptyTs

\* FollowupUpdateData with a fault: the follow-up update also sets status
FollowupUpdateData_TouchesStatus(ft, now) ==
    [f \in {TrackField(ft), TimestampField(ft), "status"} |->
        IF f = TrackField(ft) THEN "Opened"
        ELSE IF f = "status" THEN TRUE
        ELSE now]

\* update_data of a follow-up open on an existing row
FollowupUpdateData(ft, now) ==
    [f \in {TrackField(ft), TimestampField(ft)} |->
        IF f = TrackField(ft) THEN "Opened" ELSE now]

\* MainUpdateData with a fault: the count is written back without the increment
MainUpdateData_NoIncrement(rec, now) ==
    IF FirstOpenedMissing(rec)
    THEN [status |-> TRUE, open_count |-> CurrentCount(rec),
          last_opened_at |-> now, first_opened_at |-> now]
    ELSE [status |-> TRUE, open_count |-> CurrentCount(rec),
          last_opened_at |-> now]

\* update_data of a main-email open on an existing row
MainUpdateData(rec, now) ==
    IF FirstOpenedMissing(rec)
    THEN [status |-> TRUE, open_count |-> CurrentCount(rec) + 1,
          last_opened_at |-> now, first_opened_at |-> now]
    ELSE [status |-> TRUE, open_count |-> CurrentCount(rec) + 1,
          last_opened_at |-> now]

\* insert_data of a follow-up open without an existing row
FollowupInsertData(e, b, ft, now) ==
    [f \in {"email", "campaign_id", TrackField(ft), TimestampField(ft)} |->
        IF f = "email" THEN e
        ELSE IF f = "campaign_id" THEN b
        ELSE IF f = TrackField(ft) THEN "Opened"
        ELSE now]

\* MainInsertData with a fault: first_opened_at is left out of the new row
MainInsertData_NoFirstOpened(e, b, now) ==
    [email |-> e, campaign_id |-> b, status |-> TRUE, open_count |-> 1,
     last_opened_at |-> now]

\* insert_data of a main-email open without an existing row
MainInsertData(e, b, now) ==
    [email |-> e, campaign_id |-> b, status |-> TRUE, open_count |-> 1,
     first_opened_at |-> now, last_opened_at |-> now]

(***************************************************************************)
(* The Mails table: select / update with .eq('email').eq('campaign_id'),   *)
(* and insert.                                                             *)
(***************************************************************************)
Matches(row, e, b) == row.email = e /\ row.campaign_id = b

Matching(t, e, b) == { i \in DOMAIN t : Matches(t[i], e, b) }

\* a row after update(upd): the columns of upd overwritten, the rest kept
Merge(row, upd) ==
    [f \in DOMAIN row \cup DOMAIN upd |-> IF f \in DOMAIN upd THEN upd[f] ELSE row[f]]

\* UpdateRows with a fault: the store increments the stored open_count itself
UpdateRows_ServerIncrement(t, upd, e, b) ==
    [i \in DOMAIN t |->
        IF ~Matches(t[i], e, b) THEN t[i]
        ELSE IF "open_count" \in DOMAIN upd
             THEN Merge(t[i], [upd EXCEPT !.open_count = CurrentCount(t[i]) + 1])
             ELSE Merge(t[i], upd)]

\* update(upd).eq('email', e).eq('campaign_id', b): every matching row
UpdateRows(t, upd, e, b) ==
    [i \in DOMAIN t |-> IF Matches(t[i], e, b) THEN Merge(t[i], upd) ELSE t[i]]

\* insert(row)
InsertRow(t, row) == Append(t, row)

(***************************************************************************)
(* track_email, one action per step between two accesses to the store.     *)
(* The locals of a request live in its slot until the handler returns.     *)
(***************************************************************************)
Idle(r) == pc[r] \in {"idle", "done"}

\* the except clause (if any) and the return statement
Finish(r, oc) ==
    /\ pc' = [pc EXCEPT ![r] = "done"]
    /\ outcome' = [outcome EXCEPT ![r] = oc]
    /\ response' = [response EXCEPT ![r] = ResponseOf(oc)]
    /\ email' = [email EXCEPT ![r] = ""]
    /\ campaign_id' = [campaign_id EXCEPT ![r] = <<>>]
    /\ existing' = [existing EXCEPT ![r] = <<>>]
    /\ current_time' = [current_time EXCEPT ![r] = NoTime]
    /\ data' = [data EXCEPT ![r] = <<>>]

\* a request may arrive and takes the first free slot; one request at a time
\* when the server is serial
CanArrive(r) ==
    /\ Idle(r)
    /\ \A q \in Req : q < r => ~Idle(q)
    /\ received < MaxRequests
    /\ serial => \A q \in Req : Idle(q)

\* entry of track_email up to the lookup: get_supabase_client() returns
Receive(r) ==
    /\ CanArrive(r)
    /\ GetSupabaseClient(env) = "client"
    /\ \E e \in Emails, c \in CampaignIds :
          /\ email' = [email EXCEPT ![r] = e]
          /\ campaign_id' = [campaign_id EXCEPT ![r] = c]
    /\ received' = received + 1
    /\ pc' = [pc EXCEPT ![r] = "select"]
    /\ outcome' = [outcome EXCEPT ![r] = "running"]
    /\ writes' = [writes EXCEPT ![r] = 0]
    /\ response' = [response EXCEPT ![r] = NoResponse]
    /\ UNCHANGED <<env, serial, table, existing, current_time, data, mainOpens,
                   dIn, dOut>>

\* entry of track_email: get_supabase_client() raises
ReceiveNoClient(r) ==
    /\ CanArrive(r)
    /\ GetSupabaseClient(env) # "client"
    /\ received' = received + 1
    /\ writes' = [writes EXCEPT ![r] = 0]
    /\ Finish(r, GetSupabaseClient(env))
    /\ UNCHANGED <<env, serial, table, mainOpens, dIn, dOut>>

\* update_data / insert_data for the branch taken
BuildData(e, c, found, now) ==
    IF found # <<>>
    THEN IF IsFollowup(c)
         THEN FollowupUpdateData(FollowupType(c), now)
         ELSE MainUpdateData(found[1], now)
    ELSE IF IsFollowup(c)
         THEN FollowupInsertData(e, BaseCampaignId(c), FollowupType(c), now)
         ELSE MainInsertData(e, BaseCampaignId(c), now)

\* the lookup returns (existing.data[0] is any of the matching rows), then
\* current_time = datetime.now().isoformat() and the data of the branch
Select(r) ==
    /\ pc[r] = "select"
    /\ LET m == Matching(table, email[r], BaseCampaignId(campaign_id[r]))
       IN  \E found \in IF m = {} THEN {<<>>} ELSE { <<table[i]>> : i \in m },
              now \in Times :
              /\ existing' = [existing EXCEPT ![r] = found]
              /\ current_time' = [current_time EXCEPT ![r] = now]
              /\ data' = [data EXCEPT ![r] =
                            BuildData(email[r], campaign_id[r], found, now)]
    /\ pc' = [pc EXCEPT ![r] = "write"]
    /\ UNCHANGED <<env, serial, table, received, email, campaign_id,
                   outcome, writes, response, mainOpens, dIn, dOut>>

\* the lookup raises
SelectFails(r) ==
    /\ pc[r] = "select"
    /\ Finish(r, "SelectError")
    /\ UNCHANGED <<env, serial, table, received, writes, mainOpens, dIn, dOut>>

\* the table after the request's update or insert
Written(t, e, c, found, d) ==
    IF found # <<>>
    THEN UpdateRows(t, d, e, BaseCampaignId(c))
    ELSE InsertRow(t, d)

\* the update or insert executes
Write(r) ==
    /\ pc[r] = "write"
    /\ table' = Written(table, email[r], campaign_id[r], existing[r], data[r])
    /\ writes' = [writes EXCEPT ![r] = @ + 1]
    /\ mainOpens' =
          IF IsFollowup(campaign_id[r]) THEN mainOpens
          ELSE [mainOpens EXCEPT
                  ![<<email[r], BaseCampaignId(campaign_id[r])>>] = @ + 1]
    /\ Finish(r, "ok")
    /\ UNCHANGED <<env, serial, received, dIn, dOut>>

\* the update or insert raises
WriteFails(r) ==
    /\ pc[r] = "write"
    /\ writes' = [writes EXCEPT ![r] = @ + 1]
    /\ Finish(r, "WriteError")
    /\ UNCHANGED <<env, serial, table, received, mainOpens, dIn, dOut>>

InitRequests ==
    /\ table = <<>>
    /\ received = 0
    /\ pc = [r \in Req |-> "idle"]
    /\ email = [r \in Req |-> ""]
    /\ campaign_id = [r \in Req |-> <<>>]
    /\ existing = [r \in Req |-> <<>>]
    /\ current_time = [r \in Req |-> NoTime]
    /\ data = [r \in Req |-> <<>>]
    /\ outcome = [r \in Req |-> "none"]
    /\ writes = [r \in Req |-> 0]
    /\ response = [r \in Req |-> NoResponse]
    /\ mainOpens = [k \in Keys |-> 0]

\* the development server: requests overlap
Init ==
    /\ env \in [url : EnvUrls, key : EnvKeys]
    /\ serial = FALSE
    /\ dIn = <<>>
    /\ dOut = <<>>
    /\ InitRequests

\* a server that handles one request at a time
InitSerial ==
    /\ env \in [url : EnvUrls, key : EnvKeys]
    /\ serial = TRUE
    /\ dIn = <<>>
    /\ dOut = <<>>
    /\ InitRequests

Next ==
    \E r \in Req :
        \/ Receive(r)
        \/ ReceiveNoClient(r)
        \/ Select(r)
        \/ SelectFails(r)
        \/ Write(r)
        \/ WriteFails(r)

Spec == Init /\ [][Next]_vars

SpecSerial == InitSerial /\ [][Next]_vars

(***************************************************************************)
(* The derivation of base_campaign_id alone, applied twice to any string.  *)
(***************************************************************************)
Alphabet == {"F", "1", "2", "/", " ", "c"}

Strings == UNION { [1..k -> Alphabet] : k \in 0..MaxLen }

InitDerive ==
    /\ env = [url |-> "ok", key |-> "ok"]
    /\ serial = FALSE
    /\ dIn \in Strings
    /\ dOut = <<>>
    /\ InitRequests

\* base_campaign_id of dIn, then of the derived id
Derive ==
    /\ Len(dOut) < 2
    /\ dOut' = Append(dOut, BaseCampaignId(IF dOut = <<>> THEN dIn ELSE dOut[1]))
    /\ UNCHANGED <<env, serial, table, received, reqVars, mainOpens, dIn>>

NextDerive == Derive

SpecDerive == InitDerive /\ [][NextDerive]_vars

(***************************************************************************)
(* Properties.                                                             *)
(***************************************************************************)
Base(r) == BaseCampaignId(campaign_id[r])

IsMain(r) == ~IsFollowup(campaign_id[r])

\* request r's insert or update is executed by the store in this step
Wrote(r) == pc[r] = "write" /\ pc'[r] = "done" /\ outcome'[r] = "ok"

MainFields == {"status", "open_count", "first_opened_at", "last_opened_at"}

\* column f of row is the same (present with the same value, or absent) in both
SameField(old, new, f) ==
    /\ (f \in DOMAIN old) = (f \in DOMAIN new)
    /\ f \in DOMAIN old => old[f] = new[f]

\* C1: every finished tracking request, whatever the outcome of the recorder
\* (write accepted, configuration missing, client refused, lookup failed,
\* write failed), has returned the fixed 35-byte GIF with type image/gif.
C1_FixedPixel ==
    \A r \in Req :
        pc[r] = "done" =>
            /\ response[r].body = pixel_data
            /\ response[r].mimetype = "image/gif"
            /\ Len(response[r].body) = 35

C1_Witness ==
    \E r, q \in Req :
        /\ pc[r] = "done" /\ outcome[r] = "WriteError"
        /\ pc[q] = "done" /\ outcome[q] = "SelectError"
        /\ response[r] = response[q]
        /\ response[r].mimetype = "image/gif"

\* the step of an accepted insert of a main-email open
C2_Insert ==
    \A r \in Req :
        (Wrote(r) /\ IsMain(r) /\ existing[r] = <<>>) =>
            /\ Len(table') = Len(table) + 1
            /\ SubSeq(table', 1, Len(table)) = table
            /\ LET row == table'[Len(table')]
               IN  /\ DOMAIN row = {"email", "campaign_id"} \cup MainFields
                   /\ row.email = email[r]
                   /\ row.campaign_id = Base(r)
                   /\ row.status = TRUE
                   /\ row.open_count = 1
                   /\ row.first_opened_at = row.last_opened_at
                   /\ row.last_opened_at = current_time[r]

\* C2: a main-email open whose lookup found no row for (email,
\* base_campaign_id) and whose insert is accepted appends exactly one row,
\* with that email and base id, status = true, open_count = 1 and
\* first_opened_at = last_opened_at; every other row is left as it was.
C2_MainInsert == [][C2_Insert]_vars

C2_Witness ==
    /\ Len(table) = 2
    /\ table[1].campaign_id # table[2].campaign_id
    /\ "open_count" \in DOMAIN table[2]
    /\ table[2].open_count = 1
    /\ table[2].first_opened_at = table[2].last_opened_at
    /\ mainOpens[<<table[2].email, table[2].campaign_id>>] = 1

\* state part: with requests handled one after another, a row that
\* has an open_count has status = true and open_count = the number of
\* main-email opens of its pair that the store accepted.
C3_Count ==
    \A i \in DOMAIN table :
        "open_count" \in DOMAIN table[i] =>
            /\ table[i].open_count =
                  mainOpens[<<table[i].email, table[i].campaign_id>>]
            /\ table[i].status = TRUE

\* step part: a main-email open on an existing row raises the stored
\* open_count (absent counted as 0) by exactly 1, sets status = true and
\* last_opened_at to the time of the open.
C3_Increment ==
    \A r \in Req :
        (Wrote(r) /\ IsMain(r) /\ existing[r] # <<>>) =>
            \A i \in Matching(table, email[r], Base(r)) :
                /\ table'[i].open_count = CurrentCount(table[i]) + 1
                /\ table'[i].status = TRUE
                /\ table'[i].last_opened_at = current_time[r]

\* C3: sequential main-email opens: each raises open_count by exactly 1,
\* so n accepted opens of a pair leave status = true and open_count = n.
C3_SequentialOpens == []C3_Count /\ [][C3_Increment]_vars

C3_Witness ==
    \E i \in DOMAIN table :
        /\ serial
        /\ "open_count" \in DOMAIN table[i]
        /\ table[i].open_count = 2
        /\ table[i].status = TRUE
        /\ mainOpens[<<table[i].email, table[i].campaign_id>>] = 2

\* the step of an accepted update: every column of every row is unchanged,
\* except the columns the kind of open may write on the matching rows
C4_Frame ==
    \A r \in Req :
        (Wrote(r) /\ existing[r] # <<>>) =>
            /\ Len(table') = Len(table)
            /\ \A i \in DOMAIN table :
                 \A f \in DOMAIN table[i] \cup DOMAIN table'[i] :
                    \/ SameField(table[i], table'[i], f)
                    \/ /\ IsMain(r)
                       /\ f \in MainFields
                    \/ /\ FollowupType(campaign_id[r]) = "F1"
                       /\ f \in {"F1_track", "f1_opened_at"}
                    \/ /\ FollowupType(campaign_id[r]) = "F2"
                       /\ f \in {"F2_track", "f2_opened_at"}
                    \/ /\ FollowupType(campaign_id[r]) = "F3"
                       /\ f \in {"F3_track", "f3_opened_at"}
                    \/ /\ FollowupType(campaign_id[r]) = "F4"
                       /\ f \in {"F4_track", "f4_opened_at"}

\* C4: on an existing row a follow-up open changes nothing but the track
\* and opened_at columns of its own stage (so status, open_count,
\* first_opened_at and last_opened_at stay), and a main-email open changes
\* nothing but the four main columns (so every follow-up column stays).
C4_ExclusiveTargets == [][C4_Frame]_vars

\* a row that a main-email open and a follow-up open have both written,
\* one of them as an update
C4_Witness ==
    \E i \in DOMAIN table :
        /\ "open_count" \in DOMAIN table[i]
        /\ "F1_track" \in DOMAIN table[i]
        /\ table[i].open_count = 1
        /\ Cardinality(Matching(table, table[i].email, table[i].campaign_id)) = 1

\* C5: the derivation of base_campaign_id is idempotent, and the derived
\* id contains no follow-up marker (it is treated as a main-email open).
C5_Idempotent ==
    /\ Len(dOut) >= 1 => ~IsFollowup(dOut[1])
    /\ Len(dOut) = 2 => dOut[2] = dOut[1]

\* C6: at most one row of the Mails table for each (email, campaign_id).
C6_UniqueKey ==
    \A i, j \in DOMAIN table :
        (table[i].email = table[j].email
            /\ table[i].campaign_id = table[j].campaign_id) => i = j

\* the track column of stage ft as the code names it
C7_Track(ft) ==
    CASE ft = "F1" -> "F1_track"
      [] ft = "F2" -> "F2_track"
      [] ft = "F3" -> "F3_track"
      [] ft = "F4" -> "F4_track"

\* the track column of stage ft as the data model names it
C7_LowercaseTrack(ft) ==
    CASE ft = "F1" -> "f1_track"
      [] ft = "F2" -> "f2_track"
      [] ft = "F3" -> "f3_track"
      [] ft = "F4" -> "f4_track"

\* the timestamp column of stage ft
C7_OpenedAt(ft) ==
    CASE ft = "F1" -> "f1_opened_at"
      [] ft = "F2" -> "f2_opened_at"
      [] ft = "F3" -> "f3_opened_at"
      [] ft = "F4" -> "f4_opened_at"

\* a follow-up open whose lookup found no row appends one row whose
\* populated columns are exactly email, campaign_id = the base id, the
\* track column = "Opened" and the opened_at column = the time of the open
C7_Insert(lowercase) ==
    \A r \in Req :
        (Wrote(r) /\ ~IsMain(r) /\ existing[r] = <<>>) =>
            /\ Len(table') = Len(table) + 1
            /\ SubSeq(table', 1, Len(table)) = table
            /\ LET row == table'[Len(table')]
                   ft == FollowupType(campaign_id[r])
                   track == IF lowercase THEN C7_LowercaseTrack(ft)
                            ELSE C7_Track(ft)
               IN  /\ DOMAIN row =
                         {"email", "campaign_id", track, C7_OpenedAt(ft)}
                   /\ row.email = email[r]
                   /\ row.campaign_id = Base(r)
                   /\ row[track] = "Opened"
                   /\ row[C7_OpenedAt(ft)] = current_time[r]

\* C7, amended: a follow-up open of stage n on a pair with no row inserts
\* one row populated with exactly email, campaign_id = base_campaign_id,
\* F{n}_track = "Opened" (capital F, as the code names the column) and
\* f{n}_opened_at = now; status, open_count, first_opened_at and
\* last_opened_at are left unset.
C7_FollowupInsert == [][C7_Insert(FALSE)]_vars

\* C7 as stated: the same with the track column named f{n}_track, the
\* lowercase name of the data model.
C7_FollowupInsertLowercase == [][C7_Insert(TRUE)]_vars

C7_Witness ==
    \E i \in DOMAIN table :
        /\ DOMAIN table[i] = {"email", "campaign_id", "F1_track", "f1_opened_at"}
        /\ table[i].F1_track = "Opened"
        /\ table[i].campaign_id = <<"c">>

\* a step keeps every non-empty first_opened_at
C8_Step ==
    \A i \in DOMAIN table :
        ("first_opened_at" \in DOMAIN table[i]
            /\ table[i].first_opened_at # EmptyTs) =>
            /\ "first_opened_at" \in DOMAIN table'[i]
            /\ table'[i].first_opened_at = table[i].first_opened_at

\* C8: first_opened_at is write-once: once a row's first_opened_at holds a
\* non-empty value, no step of any interleaving of requests changes it.
C8_WriteOnce == [][C8_Step]_vars

\* the step of an accepted write: an update stores the count read by the
\* lookup plus one, and an insert decided by the lookup adds a row even if
\* the pair has got a row since
C9_Step ==
    \A r \in Req :
        /\ (Wrote(r) /\ IsMain(r) /\ existing[r] # <<>>) =>
              \A i \in Matching(table, email[r], Base(r)) :
                  table'[i].open_count = CurrentCount(existing[r][1]) + 1
        /\ (Wrote(r) /\ existing[r] = <<>>) =>
              /\ Len(table') = Len(table) + 1
              /\ Matches(table'[Len(table')], email[r], Base(r))

\* C9: lookup and write are not atomic: the count a main-email update
\* stores is one more than the count its own lookup read, whatever the
\* store holds when the update arrives, so of two opens that read the same
\* count before either writes, one is lost (final count = read + 1), and
\* of two opens that both found no row, both insert.
C9_ReadThenWrite == [][C9_Step]_vars

\* the lost update: a pair with a single row whose open_count is below the
\* number of main-email opens of the pair that the store accepted
C9_Witness ==
    \E i \in DOMAIN table :
        /\ Cardinality(Matching(table, table[i].email, table[i].campaign_id)) = 1
        /\ "open_count" \in DOMAIN table[i]
        /\ mainOpens[<<table[i].email, table[i].campaign_id>>] = 2
        /\ table[i].open_count = 1

\* state part: a request has issued at most one write; one that ended
\* in a configuration, client or lookup error has issued none; and with a
\* required variable unset no write is issued and the table stays empty.
C10_Writes ==
    /\ \A r \in Req :
          /\ writes[r] \in {0, 1}
          /\ outcome[r] \in {"ValueError", "ClientError", "SelectError"}
                => writes[r] = 0
          /\ pc[r] = "select" => writes[r] = 0
    /\ (env.url = "" \/ env.key = "") =>
          /\ table = <<>>
          /\ \A r \in Req : writes[r] = 0 /\ pc[r] \in {"idle", "done"}
          /\ \A r \in Req : pc[r] = "done" => outcome[r] = "ValueError"

\* step part: a write is issued only by a request whose lookup has
\* returned, the table changes only in the step of such a write, and a
\* request whose lookup fails leaves the table unchanged.
C10_Step ==
    /\ \A r \in Req :
          /\ (writes'[r] > writes[r]) => (pc[r] = "write" /\ writes[r] = 0)
          /\ (pc[r] = "select" /\ pc'[r] = "done") => table' = table
    /\ table' # table => \E r \in Req : Wrote(r) /\ writes'[r] = 1

\* C10: a tracking request issues at most one write, only after its lookup
\* has returned; with the configuration missing or the lookup failing it
\* issues none and the Mails table is unchanged.
C10_AtMostOneWrite == []C10_Writes /\ [][C10_Step]_vars

C10_Witness ==
    \E r, q \in Req :
        /\ pc[r] = "done" /\ outcome[r] = "SelectError" /\ writes[r] = 0
        /\ pc[q] = "done" /\ outcome[q] = "ok" /\ writes[q] = 1
        /\ Len(table) = 1

====
